---- MODULE Spec2Model ----
(***************************************************************************)
(* Model of the GStreamer audio bridge of HeavenWaves,                     *)
(* app/src/main/jni/native-audio-bridge.cpp: the process-wide pipeline     *)
(* state g_state, the five JNI entry points (init, start, feed, stop,      *)
(* getLastError), the main-loop thread spawned by start_pipeline and the   *)
(* bus watch callback it dispatches.                                       *)
(*                                                                         *)
(* The media engine (GStreamer / GLib) is the environment.  What the model *)
(* takes from it:                                                          *)
(*  - g_main_loop_new(NULL, FALSE) makes a loop that is not running;       *)
(*    g_main_loop_run sets is_running and iterates while it is set;        *)
(*    g_main_loop_quit clears is_running.  A quit issued before run has    *)
(*    started is therefore overwritten by run.                             *)
(*  - the bus watch is attached to the default main context, so its        *)
(*    callback runs only on the thread that runs the main loop, one        *)
(*    message per dispatch.                                                *)
(*  - gst_bus_timed_pop_filtered pops messages off the same bus, drops     *)
(*    those that do not match its filter and returns the first that does,  *)
(*    or NULL at the timeout.                                              *)
(*  - setting the pipeline to NULL flushes its bus and the appsrc queue.   *)
(*  - appsrc is configured with block = TRUE and a byte limit: a push      *)
(*    blocks while the queue is full.                                      *)
(***************************************************************************)
EXTENDS Naturals, Sequences, FiniteSets, TLC

\* Most calls made in a run in which calls may overlap.
MaxCalls == 4
\* Longest bus queue explored.
MaxBus == 2
\* Capacity of the appsrc queue, in chunks (max-bytes, line 114).
MaxQueue == 1

Callers == {"t1", "t2"}
Stages == {"appsrc", "audioconvert", "audioresample", "opusenc", "oggmux", "filesink"}
Handles == Stages \cup {"pipeline"}
ErrTexts == {"e1", "e2"}

\* Bus messages the callback distinguishes (lines 394-452).
Msg(type, text) == [type |-> type, text |-> text]
NoMsg == Msg("NONE", "")
EosMsg == Msg("EOS", "")
ErrorMsgs == {Msg("ERROR", e) : e \in ErrTexts}
Messages == ErrorMsgs \cup {EosMsg, Msg("WARNING", ""), Msg("STATE_CHANGED", "")}

\* The strings the code assigns to last_error.
ErrCreate == "Failed to create one or more GStreamer elements"
ErrLink == "Failed to link GStreamer pipeline elements"
ErrNotInit == "Pipeline not initialized"
ErrThread == "Failed to create main loop thread"
ErrPlaying == "Failed to set pipeline to PLAYING state"
ErrPush == "Failed to push buffer to pipeline"
GstError(text) == "GStreamer Error: " \o text

VARIABLES
    \* g_state
    pipeline,           \* "NULL", "valid" or "freed" (a pointer to a released object)
    elems,              \* the six stage pointers, each "NULL", "valid" or "freed"
    main_loop,          \* "NULL" or "valid"
    is_initialized,
    is_playing,
    mutex_initialized,
    last_error,
    error_mutex,        \* "free" or the thread that holds it
    \* engine objects
    in_bin,             \* the stages were added to the pipeline bin
    linked,             \* the stages are linked
    bus_watch,          \* bus_message_callback is attached to the pipeline's bus
    gst_state,          \* "NULL" or "PLAYING"
    bus,                \* messages posted and not yet popped
    loop_running,       \* GMainLoop.is_running
    appsrc_eos,         \* end-of-stream was signalled to appsrc
    eos_posted,         \* the pipeline has posted EOS for it
    queued,             \* chunks in the appsrc queue
    \* the main-loop thread
    lpc,                \* "none", "spawned", "run", "cb_lock", "cb_write", "cb_quit", "exited"
    cur_msg,            \* the message the callback is handling
    \* caller threads
    pc,                 \* position of each caller
    stack,              \* return positions of the nested calls
    op,                 \* the entry point each caller is in
    pend,               \* error string about to be recorded, and where to go on
    msg,                \* stop_pipeline's local msg
    ret,                \* the return statement reached and the value it returns
    \* observation
    wasPlaying,         \* is_playing when the call in progress was made
    stopLog,            \* the steps the running stop_pipeline has done
    stopped,            \* the last lifecycle call to return was a stop() of an
                        \* initialized session
    fresh,              \* the last lifecycle call to return was an initialize()
                        \* that returned true
    orphaned,           \* pthread_create has overwritten the handle of a thread
                        \* that was never joined
    calls               \* calls counted so far (counted only where the number
                        \* of calls is bounded)

gvars == <<pipeline, elems, main_loop, is_initialized, is_playing,
           mutex_initialized, last_error, error_mutex>>
evars == <<in_bin, linked, bus_watch, gst_state, bus, loop_running,
           appsrc_eos, eos_posted, queued>>
lvars == <<lpc, cur_msg>>
cvars == <<pc, stack, op, pend, msg, ret>>
hvars == <<wasPlaying, stopLog, stopped, fresh, orphaned, calls>>
vars == <<gvars, evars, lvars, cvars, hvars>>

NoPend == [text |-> "", next |-> "idle"]
NoRet == [at |-> "none", val |-> "none"]

\* static PipelineState g_state = {0}  (line 49)
Init ==
    /\ pipeline = "NULL"
    /\ elems = [s \in Stages |-> "NULL"]
    /\ main_loop = "NULL"
    /\ is_initialized = FALSE
    /\ is_playing = FALSE
    /\ mutex_initialized = FALSE
    /\ last_error = ""
    /\ error_mutex = "free"
    /\ in_bin = FALSE
    /\ linked = FALSE
    /\ bus_watch = FALSE
    /\ gst_state = "NULL"
    /\ bus = <<>>
    /\ loop_running = FALSE
    /\ appsrc_eos = FALSE
    /\ eos_posted = FALSE
    /\ queued = 0
    /\ lpc = "none"
    /\ cur_msg = NoMsg
    /\ pc = [c \in Callers |-> "idle"]
    /\ stack = [c \in Callers |-> <<>>]
    /\ op = [c \in Callers |-> "none"]
    /\ pend = [c \in Callers |-> NoPend]
    /\ msg = [c \in Callers |-> NoMsg]
    /\ ret = [c \in Callers |-> NoRet]
    /\ wasPlaying = [c \in Callers |-> FALSE]
    /\ stopLog = [c \in Callers |-> <<>>]
    /\ stopped = FALSE
    /\ fresh = FALSE
    /\ orphaned = FALSE
    /\ calls = 0

----------------------------------------------------------------------------
\* Control flow helpers

Goto(c, l) == pc' = [pc EXCEPT ![c] = l]

\* Call a void helper (cleanup_pipeline, stop_pipeline) and come back at `back`.
Call(c, entry, back) ==
    /\ pc' = [pc EXCEPT ![c] = entry]
    /\ stack' = [stack EXCEPT ![c] = <<back>> \o @]

\* A return statement of an entry point: the value is on its way to the caller.
ReturnToCaller(c, at, val) ==
    /\ pc' = [pc EXCEPT ![c] = "return"]
    /\ ret' = [ret EXCEPT ![c] = [at |-> at, val |-> val]]

\* Return from a void helper: to the nested caller, or out of the entry point.
ReturnVoid(c, at) ==
    IF stack[c] # <<>>
    THEN /\ pc' = [pc EXCEPT ![c] = Head(stack[c])]
         /\ stack' = [stack EXCEPT ![c] = Tail(@)]
         /\ UNCHANGED ret
    ELSE /\ ReturnToCaller(c, at, "void")
         /\ UNCHANGED stack

\* pthread_mutex_lock; last_error = text; pthread_mutex_unlock; LOGE of
\* last_error; then go on at next.
RecordError(c, text, next) ==
    /\ pc' = [pc EXCEPT ![c] = "err_lock"]
    /\ pend' = [pend EXCEPT ![c] = [text |-> text, next |-> next]]

Log(c, step) == stopLog' = [stopLog EXCEPT ![c] = Append(@, step)]


\* A step of caller c that only moves it to position l.
Step(c, l) == Goto(c, l) /\ UNCHANGED <<stack, op, pend, msg, ret, hvars>>

AllValid == pipeline = "valid" /\ \A s \in Stages : elems[s] = "valid"

\* What the pipeline object owns goes with it: bus, watch, queue, state.
NoEngineObject ==
    /\ in_bin' = FALSE
    /\ linked' = FALSE
    /\ bus_watch' = FALSE
    /\ gst_state' = "NULL"
    /\ bus' = <<>>
    /\ appsrc_eos' = FALSE
    /\ eos_posted' = FALSE
    /\ queued' = 0

----------------------------------------------------------------------------
\* The JNI entry points: a caller thread enters one of the five operations.

BeginCall(c, o, entry) ==
    /\ pc[c] = "idle"
    /\ pc' = [pc EXCEPT ![c] = entry]
    /\ op' = [op EXCEPT ![c] = o]
    /\ wasPlaying' = [wasPlaying EXCEPT ![c] = is_playing]
    /\ stopped' = (stopped /\ o \notin {"init", "start"})
    /\ fresh' = (fresh /\ o \notin {"init", "start"})
    /\ UNCHANGED <<gvars, evars, lvars, stack, pend, msg, ret, stopLog, orphaned,
                   calls>>

\* The JNI wrapper hands the value back: the call is over.
Return(c) ==
    /\ pc[c] = "return"
    /\ pc' = [pc EXCEPT ![c] = "idle"]
    /\ op' = [op EXCEPT ![c] = "none"]
    /\ ret' = [ret EXCEPT ![c] = NoRet]
    /\ msg' = [msg EXCEPT ![c] = NoMsg]
    /\ wasPlaying' = [wasPlaying EXCEPT ![c] = FALSE]
    /\ stopLog' = [stopLog EXCEPT ![c] = <<>>]
    /\ stopped' = (stopped \/ ret[c].at = "stop:done")
    /\ fresh' = ((fresh \/ ret[c].at = "init:ok") /\ op[c] # "stop")
    /\ UNCHANGED <<gvars, evars, lvars, stack, pend, orphaned, calls>>

nativeInitPipeline(c) == BeginCall(c, "init", "init_mutex")
nativeStartPipeline(c) == BeginCall(c, "start", "start_check")
nativeFeedAudioData(c) == BeginCall(c, "feed", "feed_check")
nativeStopPipeline(c) == BeginCall(c, "stop", "stop_check")
nativeGetLastError(c) == BeginCall(c, "getLastError", "get_lock")

----------------------------------------------------------------------------
\* How every caller thread records an error (lines 90-94, 151-154, 181-184,
\* 200-203, 214-217, 278-282).

ErrLock(c) ==
    /\ pc[c] = "err_lock"
    /\ error_mutex = "free"
    /\ error_mutex' = c
    /\ Step(c, "err_write")
    /\ UNCHANGED <<pipeline, elems, main_loop, is_initialized, is_playing,
                   mutex_initialized, last_error, evars, lvars>>

ErrWrite(c) ==
    /\ pc[c] = "err_write"
    /\ last_error' = pend[c].text
    /\ error_mutex' = "free"
    /\ Step(c, "err_log")
    /\ UNCHANGED <<pipeline, elems, main_loop, is_initialized, is_playing,
                   mutex_initialized, evars, lvars>>

\* LOGE("%s", g_state.last_error.c_str()) after the unlock: the string is read
\* with the mutex released.
ErrLog(c) ==
    /\ pc[c] = "err_log"
    /\ pc' = [pc EXCEPT ![c] = pend[c].next]
    /\ pend' = [pend EXCEPT ![c] = NoPend]
    /\ UNCHANGED <<gvars, evars, lvars, stack, op, msg, ret, hvars>>

----------------------------------------------------------------------------
\* init_pipeline (lines 59-174)

InitMutex(c) ==
    /\ pc[c] = "init_mutex"
    /\ mutex_initialized' = TRUE
    /\ Step(c, "init_check")
    /\ UNCHANGED <<pipeline, elems, main_loop, is_initialized, is_playing,
                   last_error, error_mutex, evars, lvars>>

\* InitCheck without the cleanup of the existing session: the new graph is
\* built over the old one.
InitCheck_NoCleanup(c) ==
    /\ pc[c] = "init_check"
    /\ Goto(c, "init_create")
    /\ UNCHANGED <<gvars, evars, lvars, stack, op, pend, msg, ret, hvars>>

InitCheck(c) ==
    /\ pc[c] = "init_check"
    /\ IF is_initialized
       THEN Call(c, "cleanup_check", "init_create")
       ELSE Goto(c, "init_create") /\ UNCHANGED stack
    /\ UNCHANGED <<gvars, evars, lvars, op, pend, msg, ret, hvars>>

\* gst_pipeline_new and six gst_element_factory_make: each may return NULL.
\* `outcomes` are the sets of objects that may be the ones created.
InitCreateAs(c, outcomes) ==
    /\ pc[c] = "init_create"
    /\ \E ok \in outcomes :
          /\ pipeline' = IF "pipeline" \in ok THEN "valid" ELSE "NULL"
          /\ elems' = [s \in Stages |-> IF s \in ok THEN "valid" ELSE "NULL"]
    /\ NoEngineObject
    /\ Step(c, "init_created")
    /\ UNCHANGED <<main_loop, is_initialized, is_playing, mutex_initialized,
                   last_error, error_mutex, loop_running, lvars>>

InitCreate(c) == InitCreateAs(c, SUBSET Handles)

InitCreated(c) ==
    /\ pc[c] = "init_created"
    /\ IF AllValid
       THEN Goto(c, "init_config") /\ UNCHANGED pend
       ELSE RecordError(c, ErrCreate, "init_create_failed")
    /\ UNCHANGED <<gvars, evars, lvars, stack, op, msg, ret, hvars>>

InitCreateFailed(c) ==
    /\ pc[c] = "init_create_failed"
    /\ Call(c, "cleanup_check", "init_ret_create")
    /\ UNCHANGED <<gvars, evars, lvars, op, pend, msg, ret, hvars>>

ReturnFrom(c, at, val) == ReturnToCaller(c, at, val) /\ UNCHANGED <<stack, op, pend, msg, hvars>>

InitRetCreate(c) ==
    /\ pc[c] = "init_ret_create"
    /\ ReturnFrom(c, "init:create_failed", "false")
    /\ UNCHANGED <<gvars, evars, lvars>>

\* g_object_set on appsrc, opusenc and filesink, then gst_bin_add_many.
InitConfig(c) ==
    /\ pc[c] = "init_config"
    /\ in_bin' = TRUE
    /\ Step(c, "init_link")
    /\ UNCHANGED <<gvars, linked, bus_watch, gst_state, bus, loop_running,
                   appsrc_eos, eos_posted, queued, lvars>>

InitLink(c) ==
    /\ pc[c] = "init_link"
    /\ \E ok \in BOOLEAN :
          IF ok
          THEN linked' = TRUE /\ Goto(c, "init_watch") /\ UNCHANGED pend
          ELSE UNCHANGED linked /\ RecordError(c, ErrLink, "init_link_failed")
    /\ UNCHANGED <<gvars, in_bin, bus_watch, gst_state, bus, loop_running,
                   appsrc_eos, eos_posted, queued, lvars, stack, op, msg, ret, hvars>>

InitLinkFailed(c) ==
    /\ pc[c] = "init_link_failed"
    /\ Call(c, "cleanup_check", "init_ret_link")
    /\ UNCHANGED <<gvars, evars, lvars, op, pend, msg, ret, hvars>>

InitRetLink(c) ==
    /\ pc[c] = "init_ret_link"
    /\ ReturnFrom(c, "init:link_failed", "false")
    /\ UNCHANGED <<gvars, evars, lvars>>

InitWatch(c) ==
    /\ pc[c] = "init_watch"
    /\ bus_watch' = TRUE
    /\ Step(c, "init_store")
    /\ UNCHANGED <<gvars, in_bin, linked, gst_state, bus, loop_running,
                   appsrc_eos, eos_posted, queued, lvars>>

\* InitStore that also empties last_error on success.
InitStore_ClearsError(c) ==
    /\ pc[c] = "init_store"
    /\ is_initialized' = TRUE
    /\ is_playing' = FALSE
    /\ last_error' = ""
    /\ ReturnFrom(c, "init:ok", "true")
    /\ UNCHANGED <<pipeline, elems, main_loop, mutex_initialized,
                   error_mutex, evars, lvars>>

InitStore(c) ==
    /\ pc[c] = "init_store"
    /\ is_initialized' = TRUE
    /\ is_playing' = FALSE
    /\ ReturnFrom(c, "init:ok", "true")
    /\ UNCHANGED <<pipeline, elems, main_loop, mutex_initialized, last_error,
                   error_mutex, evars, lvars>>


----------------------------------------------------------------------------
\* cleanup_pipeline (lines 354-378)

\* CleanupCheck without the call of stop_pipeline: a teardown that releases
\* the graph under a running session.
CleanupCheck_NoStop(c) ==
    /\ pc[c] = "cleanup_check"
    /\ Goto(c, "cleanup_unref")
    /\ UNCHANGED <<gvars, evars, lvars, stack, op, pend, msg, ret, hvars>>

CleanupCheck(c) ==
    /\ pc[c] = "cleanup_check"
    /\ IF is_playing
       THEN Call(c, "stop_check", "cleanup_unref")
       ELSE Goto(c, "cleanup_unref") /\ UNCHANGED stack
    /\ UNCHANGED <<gvars, evars, lvars, op, pend, msg, ret, hvars>>

\* gst_object_unref(g_state.pipeline): the pipeline and the stages in its bin
\* are released; the pointers still hold their old values.
CleanupUnref(c) ==
    /\ pc[c] = "cleanup_unref"
    /\ IF pipeline # "NULL"
       THEN /\ pipeline' = "freed"
            /\ elems' = [s \in Stages |->
                            IF in_bin /\ elems[s] = "valid" THEN "freed" ELSE elems[s]]
            /\ NoEngineObject
            /\ Step(c, "cleanup_null")
       ELSE /\ UNCHANGED <<pipeline, elems, in_bin, linked, bus_watch, gst_state,
                           bus, appsrc_eos, eos_posted, queued>>
            /\ Step(c, "cleanup_elems")
    /\ UNCHANGED <<main_loop, is_initialized, is_playing, mutex_initialized,
                   last_error, error_mutex, loop_running, lvars>>

CleanupNull(c) ==
    /\ pc[c] = "cleanup_null"
    /\ pipeline' = "NULL"
    /\ Step(c, "cleanup_elems")
    /\ UNCHANGED <<elems, main_loop, is_initialized, is_playing, mutex_initialized,
                   last_error, error_mutex, evars, lvars>>

CleanupElems(c) ==
    /\ pc[c] = "cleanup_elems"
    /\ elems' = [s \in Stages |-> "NULL"]
    /\ Step(c, "cleanup_flags")
    /\ UNCHANGED <<pipeline, main_loop, is_initialized, is_playing,
                   mutex_initialized, last_error, error_mutex, evars, lvars>>

\* CleanupFlags leaving is_initialized set: the teardown forgets to mark the
\* session as uninitialized.
CleanupFlags_KeepsInitialized(c) ==
    /\ pc[c] = "cleanup_flags"
    /\ is_playing' = FALSE
    /\ ReturnVoid(c, "cleanup:done")
    /\ UNCHANGED <<pipeline, elems, main_loop, is_initialized, mutex_initialized,
                   last_error, error_mutex, evars, lvars, op, pend, msg, hvars>>

CleanupFlags(c) ==
    /\ pc[c] = "cleanup_flags"
    /\ is_initialized' = FALSE
    /\ is_playing' = FALSE
    /\ ReturnVoid(c, "cleanup:done")
    /\ UNCHANGED <<pipeline, elems, main_loop, mutex_initialized, last_error,
                   error_mutex, evars, lvars, op, pend, msg, hvars>>

----------------------------------------------------------------------------
\* stop_pipeline (lines 292-349)

StopCheck(c) ==
    /\ pc[c] = "stop_check"
    /\ IF ~is_initialized
       THEN ReturnVoid(c, "stop:not_initialized")
       ELSE Goto(c, "stop_mark") /\ UNCHANGED <<stack, ret>>
    /\ UNCHANGED <<gvars, evars, lvars, op, pend, msg, hvars>>

StopMark(c) ==
    /\ pc[c] = "stop_mark"
    /\ is_playing' = FALSE
    /\ Log(c, "mark")
    /\ Goto(c, "stop_eos")
    /\ UNCHANGED <<pipeline, elems, main_loop, is_initialized, mutex_initialized,
                   last_error, error_mutex, evars, lvars, stack, op, pend, msg,
                   ret, wasPlaying, stopped, fresh, orphaned, calls>>

\* gst_app_src_end_of_stream: taken by an appsrc that is running, refused
\* (flushing) by one whose pipeline is in the NULL state.
StopEos(c) ==
    /\ pc[c] = "stop_eos"
    /\ IF elems["appsrc"] # "NULL"
       THEN /\ appsrc_eos' = (appsrc_eos \/ gst_state = "PLAYING")
            /\ Log(c, "eos")
       ELSE UNCHANGED <<appsrc_eos, stopLog>>
    /\ Goto(c, "stop_wait")
    /\ UNCHANGED <<gvars, in_bin, linked, bus_watch, gst_state, bus, loop_running,
                   eos_posted, queued, lvars, stack, op, pend, msg, ret,
                   wasPlaying, stopped, fresh, orphaned, calls>>

Matches(m) == m.type \in {"EOS", "ERROR"}
HasMatch(q) == \E i \in 1..Len(q) : Matches(q[i])
FirstMatch(q) == CHOOSE i \in 1..Len(q) : Matches(q[i]) /\ \A j \in 1..(i-1) : ~Matches(q[j])

\* gst_bus_timed_pop_filtered returns the first EOS or ERROR on the bus; what
\* was queued before it is dropped.  An ERROR taken here is only logged.
StopWaitPop(c) ==
    /\ pc[c] = "stop_wait"
    /\ pipeline # "NULL"
    /\ HasMatch(bus)
    /\ LET i == FirstMatch(bus) IN
          /\ msg' = [msg EXCEPT ![c] = bus[i]]
          /\ bus' = SubSeq(bus, i + 1, Len(bus))
    /\ Log(c, "wait")
    /\ Goto(c, "stop_null")
    /\ UNCHANGED <<gvars, in_bin, linked, bus_watch, gst_state, loop_running,
                   appsrc_eos, eos_posted, queued, lvars, stack, op, pend, ret,
                   wasPlaying, stopped, fresh, orphaned, calls>>

\* The 3 seconds pass with no EOS and no ERROR on the bus: msg is NULL.  A
\* session without a pipeline skips the wait.
StopWaitTimeout(c) ==
    /\ pc[c] = "stop_wait"
    /\ IF pipeline # "NULL"
       THEN /\ ~HasMatch(bus)
            /\ bus' = <<>>
            /\ msg' = [msg EXCEPT ![c] = Msg("TIMEOUT", "")]
            /\ Log(c, "wait")
       ELSE UNCHANGED <<bus, msg, stopLog>>
    /\ Goto(c, "stop_null")
    /\ UNCHANGED <<gvars, in_bin, linked, bus_watch, gst_state, loop_running,
                   appsrc_eos, eos_posted, queued, lvars, stack, op, pend, ret,
                   wasPlaying, stopped, fresh, orphaned, calls>>

\* StopNull with the transition to NULL made only when the wait returned a
\* message: a shutdown that leaves the pipeline running after a timeout.
StopNull_OnlyWhenConfirmed(c) ==
    /\ pc[c] = "stop_null"
    /\ IF pipeline # "NULL" /\ msg[c].type # "TIMEOUT"
       THEN /\ gst_state' = "NULL"
            /\ bus' = <<>>
            /\ queued' = 0
            /\ appsrc_eos' = FALSE
            /\ eos_posted' = FALSE
            /\ Log(c, "null")
       ELSE UNCHANGED <<gst_state, bus, queued, appsrc_eos, eos_posted, stopLog>>
    /\ Goto(c, "stop_quit")
    /\ UNCHANGED <<gvars, in_bin, linked, bus_watch, loop_running, lvars, stack,
                   op, pend, msg, ret, wasPlaying, stopped, fresh, orphaned, calls>>

\* gst_element_set_state(pipeline, GST_STATE_NULL)
StopNull(c) ==
    /\ pc[c] = "stop_null"
    /\ IF pipeline # "NULL"
       THEN /\ gst_state' = "NULL"
            /\ bus' = <<>>
            /\ queued' = 0
            /\ appsrc_eos' = FALSE
            /\ eos_posted' = FALSE
            /\ Log(c, "null")
       ELSE UNCHANGED <<gst_state, bus, queued, appsrc_eos, eos_posted, stopLog>>
    /\ Goto(c, "stop_quit")
    /\ UNCHANGED <<gvars, in_bin, linked, bus_watch, loop_running, lvars, stack,
                   op, pend, msg, ret, wasPlaying, stopped, fresh, orphaned, calls>>

\* StopQuit without the test of main_loop: the quit and the join are made
\* whether or not start_pipeline made a loop and a thread.
StopQuit_AlwaysJoins(c) ==
    /\ pc[c] = "stop_quit"
    /\ loop_running' = FALSE
    /\ Log(c, "quit")
    /\ Goto(c, "stop_join")
    /\ UNCHANGED <<gvars, in_bin, linked, bus_watch, gst_state, bus, appsrc_eos,
                   eos_posted, queued, lvars, stack, op, pend, msg, ret,
                   wasPlaying, stopped, fresh, orphaned, calls>>

StopQuit(c) ==
    /\ pc[c] = "stop_quit"
    /\ IF main_loop # "NULL"
       THEN /\ loop_running' = FALSE
            /\ Log(c, "quit")
            /\ Goto(c, "stop_join")
       ELSE /\ UNCHANGED <<loop_running, stopLog>>
            /\ Goto(c, "stop_done")
    /\ UNCHANGED <<gvars, in_bin, linked, bus_watch, gst_state, bus, appsrc_eos,
                   eos_posted, queued, lvars, stack, op, pend, msg, ret,
                   wasPlaying, stopped, fresh, orphaned, calls>>

\* pthread_join(g_state.loop_thread): returns once the thread has exited.
StopJoin(c) ==
    /\ pc[c] = "stop_join"
    /\ lpc = "exited"
    /\ lpc' = "none"
    /\ Log(c, "join")
    /\ Goto(c, "stop_unref")
    /\ UNCHANGED <<gvars, evars, cur_msg, stack, op, pend, msg, ret, wasPlaying,
                   stopped, fresh, orphaned, calls>>

StopUnref(c) ==
    /\ pc[c] = "stop_unref"
    /\ main_loop' = "NULL"
    /\ Step(c, "stop_done")
    /\ UNCHANGED <<pipeline, elems, is_initialized, is_playing, mutex_initialized,
                   last_error, error_mutex, evars, lvars>>

StopDone(c) ==
    /\ pc[c] = "stop_done"
    /\ ReturnVoid(c, "stop:done")
    /\ UNCHANGED <<gvars, evars, lvars, op, pend, msg, hvars>>

----------------------------------------------------------------------------
\* start_pipeline (lines 179-233)

StartCheck(c) ==
    /\ pc[c] = "start_check"
    /\ IF ~is_initialized
       THEN RecordError(c, ErrNotInit, "start_ret_not_init")
       ELSE Goto(c, "start_playing_check") /\ UNCHANGED pend
    /\ UNCHANGED <<gvars, evars, lvars, stack, op, msg, ret, hvars>>

StartRetNotInit(c) ==
    /\ pc[c] = "start_ret_not_init"
    /\ ReturnFrom(c, "start:not_initialized", "false")
    /\ UNCHANGED <<gvars, evars, lvars>>

\* StartPlayingCheck without the early return: a second start goes on to make
\* a loop and a thread.
StartPlayingCheck_NoEarlyReturn(c) ==
    /\ pc[c] = "start_playing_check"
    /\ Goto(c, "start_loop_new")
    /\ UNCHANGED <<gvars, evars, lvars, stack, op, pend, msg, ret, hvars>>

StartPlayingCheck(c) ==
    /\ pc[c] = "start_playing_check"
    /\ IF is_playing
       THEN ReturnFrom(c, "start:already_playing", "true")
       ELSE Goto(c, "start_loop_new") /\ UNCHANGED <<stack, op, pend, msg, ret, hvars>>
    /\ UNCHANGED <<gvars, evars, lvars>>

\* g_main_loop_new(NULL, FALSE): a loop on the default context, not running.
StartLoopNew(c) ==
    /\ pc[c] = "start_loop_new"
    /\ main_loop' = "valid"
    /\ loop_running' = FALSE
    /\ Step(c, "start_spawn")
    /\ UNCHANGED <<pipeline, elems, is_initialized, is_playing, mutex_initialized,
                   last_error, error_mutex, in_bin, linked, bus_watch, gst_state,
                   bus, appsrc_eos, eos_posted, queued, lvars>>

\* pthread_create(&g_state.loop_thread, ..., pipeline_loop_thread, ...).  The
\* handle is overwritten: a thread it still named can no longer be joined and
\* is not followed any further.
StartSpawn(c) ==
    /\ pc[c] = "start_spawn"
    /\ \E ok \in BOOLEAN :
          IF ok
          THEN /\ lpc' = "spawned"
               /\ orphaned' = (orphaned \/ lpc # "none")
               /\ Goto(c, "start_set_state")
               /\ UNCHANGED pend
          ELSE /\ UNCHANGED <<lpc, orphaned>>
               /\ RecordError(c, ErrThread, "start_spawn_failed")
    /\ UNCHANGED <<gvars, evars, cur_msg, stack, op, msg, ret, wasPlaying, stopLog,
                   stopped, fresh, calls>>

\* StartSpawnFailed without the release of the loop: main_loop keeps pointing
\* at a loop that no thread runs.
StartSpawnFailed_KeepsLoop(c) ==
    /\ pc[c] = "start_spawn_failed"
    /\ ReturnFrom(c, "start:spawn_failed", "false")
    /\ UNCHANGED <<gvars, evars, lvars>>

StartSpawnFailed(c) ==
    /\ pc[c] = "start_spawn_failed"
    /\ main_loop' = "NULL"
    /\ ReturnFrom(c, "start:spawn_failed", "false")
    /\ UNCHANGED <<pipeline, elems, is_initialized, is_playing, mutex_initialized,
                   last_error, error_mutex, evars, lvars>>

\* gst_element_set_state(pipeline, GST_STATE_PLAYING).  A stage that refuses
\* the transition may also post an Error message on the bus.  A NULL pipeline
\* is refused by the engine's argument check.
StartSetState(c) ==
    /\ pc[c] = "start_set_state"
    /\ \E ok \in (IF pipeline = "NULL" THEN {FALSE} ELSE BOOLEAN) :
          IF ok
          THEN /\ gst_state' = "PLAYING"
               /\ UNCHANGED <<bus, pend>>
               /\ Goto(c, "start_mark")
          ELSE /\ UNCHANGED gst_state
               /\ \E posted \in {<<>>} \cup {<<m>> : m \in ErrorMsgs} :
                     bus' = IF Len(bus) < MaxBus THEN bus \o posted ELSE bus
               /\ RecordError(c, ErrPlaying, "start_rb_quit")
    /\ UNCHANGED <<gvars, in_bin, linked, bus_watch, loop_running, appsrc_eos,
                   eos_posted, queued, lvars, stack, op, msg, ret, hvars>>

StartRollbackQuit(c) ==
    /\ pc[c] = "start_rb_quit"
    /\ IF main_loop # "NULL"
       THEN loop_running' = FALSE /\ Goto(c, "start_rb_join")
       ELSE UNCHANGED loop_running /\ Goto(c, "start_ret_failed")
    /\ UNCHANGED <<gvars, in_bin, linked, bus_watch, gst_state, bus, appsrc_eos,
                   eos_posted, queued, lvars, stack, op, pend, msg, ret, hvars>>

StartRollbackJoin(c) ==
    /\ pc[c] = "start_rb_join"
    /\ lpc = "exited"
    /\ lpc' = "none"
    /\ Step(c, "start_rb_unref")
    /\ UNCHANGED <<gvars, evars, cur_msg>>

StartRollbackUnref(c) ==
    /\ pc[c] = "start_rb_unref"
    /\ main_loop' = "NULL"
    /\ Step(c, "start_ret_failed")
    /\ UNCHANGED <<pipeline, elems, is_initialized, is_playing, mutex_initialized,
                   last_error, error_mutex, evars, lvars>>

StartRetFailed(c) ==
    /\ pc[c] = "start_ret_failed"
    /\ ReturnFrom(c, "start:playing_failed", "false")
    /\ UNCHANGED <<gvars, evars, lvars>>

StartMark(c) ==
    /\ pc[c] = "start_mark"
    /\ is_playing' = TRUE
    /\ ReturnFrom(c, "start:ok", "true")
    /\ UNCHANGED <<pipeline, elems, main_loop, is_initialized, mutex_initialized,
                   last_error, error_mutex, evars, lvars>>

----------------------------------------------------------------------------
\* feed_audio_data (lines 238-287)

\* FeedCheck testing is_initialized where the code tests is_playing.
FeedCheck_TestsInitialized(c) ==
    /\ pc[c] = "feed_check"
    /\ IF ~is_initialized
       THEN ReturnFrom(c, "feed:not_playing", "true")
       ELSE Goto(c, "feed_prepare") /\ UNCHANGED <<stack, op, pend, msg, ret, hvars>>
    /\ UNCHANGED <<gvars, evars, lvars>>

FeedCheck(c) ==
    /\ pc[c] = "feed_check"
    /\ IF ~is_playing
       THEN ReturnFrom(c, "feed:not_playing", "true")
       ELSE Goto(c, "feed_prepare") /\ UNCHANGED <<stack, op, pend, msg, ret, hvars>>
    /\ UNCHANGED <<gvars, evars, lvars>>

\* GetByteArrayElements, gst_buffer_new_allocate, gst_buffer_map: any of the
\* three may fail, and the call returns false without touching g_state.
FeedPrepare(c) ==
    /\ pc[c] = "feed_prepare"
    /\ \E r \in {"ok", "no_data", "no_buffer", "no_map"} :
          IF r = "ok"
          THEN Goto(c, "feed_push") /\ UNCHANGED <<stack, op, pend, msg, ret, hvars>>
          ELSE ReturnFrom(c, "feed:" \o r, "false")
    /\ UNCHANGED <<gvars, evars, lvars>>

\* gst_app_src_push_buffer: queues the chunk when appsrc is running, has not
\* seen end-of-stream and has room (block = TRUE waits for room).
FeedPushOk(c) ==
    /\ pc[c] = "feed_push"
    /\ elems["appsrc"] = "valid"
    /\ gst_state = "PLAYING"
    /\ ~appsrc_eos
    /\ queued < MaxQueue
    /\ queued' = queued + 1
    /\ ReturnFrom(c, "feed:ok", "true")
    /\ UNCHANGED <<gvars, in_bin, linked, bus_watch, gst_state, bus, loop_running,
                   appsrc_eos, eos_posted, lvars>>

\* FeedPushRejected treating the rejected push as fatal: it clears is_playing.
FeedPushRejected_EndsSession(c) ==
    /\ pc[c] = "feed_push"
    /\ is_playing' = FALSE
    /\ RecordError(c, ErrPush, "feed_ret_push")
    /\ UNCHANGED <<pipeline, elems, main_loop, is_initialized, mutex_initialized,
                   last_error, error_mutex, evars, lvars, stack, op, msg, ret, hvars>>

\* flow_ret != GST_FLOW_OK
FeedPushRejected(c) ==
    /\ pc[c] = "feed_push"
    /\ RecordError(c, ErrPush, "feed_ret_push")
    /\ UNCHANGED <<gvars, evars, lvars, stack, op, msg, ret, hvars>>

FeedRetPush(c) ==
    /\ pc[c] = "feed_ret_push"
    /\ ReturnFrom(c, "feed:push_failed", "false")
    /\ UNCHANGED <<gvars, evars, lvars>>

----------------------------------------------------------------------------
\* get_last_error (lines 383-388)

GetLock(c) ==
    /\ pc[c] = "get_lock"
    /\ error_mutex = "free"
    /\ error_mutex' = c
    /\ Step(c, "get_read")
    /\ UNCHANGED <<pipeline, elems, main_loop, is_initialized, is_playing,
                   mutex_initialized, last_error, evars, lvars>>

GetRead(c) ==
    /\ pc[c] = "get_read"
    /\ error_mutex' = "free"
    /\ ReturnFrom(c, "getLastError", last_error)
    /\ UNCHANGED <<pipeline, elems, main_loop, is_initialized, is_playing,
                   mutex_initialized, last_error, evars, lvars>>


----------------------------------------------------------------------------
\* pipeline_loop_thread (lines 460-465) and bus_message_callback (393-455)

\* g_main_loop_run(g_state.main_loop) begins: it marks the loop as running.
LoopEnter ==
    /\ lpc = "spawned"
    /\ IF main_loop # "NULL"
       THEN loop_running' = TRUE /\ lpc' = "run"
       ELSE UNCHANGED loop_running /\ lpc' = "exited"
    /\ UNCHANGED <<gvars, in_bin, linked, bus_watch, gst_state, bus, appsrc_eos,
                   eos_posted, queued, cur_msg, cvars, hvars>>

\* One iteration of the loop: the bus watch takes the oldest message and
\* calls bus_message_callback with it.
LoopDispatch ==
    /\ lpc = "run"
    /\ loop_running
    /\ bus_watch
    /\ bus # <<>>
    /\ LET m == Head(bus) IN
          /\ bus' = Tail(bus)
          /\ lpc' = CASE m.type = "ERROR" -> "cb_lock"
                      [] m.type = "EOS" -> "cb_quit"
                      [] OTHER -> "run"
          /\ cur_msg' = IF m.type \in {"ERROR", "EOS"} THEN m ELSE NoMsg
    /\ UNCHANGED <<gvars, in_bin, linked, bus_watch, gst_state, loop_running,
                   appsrc_eos, eos_posted, queued, cvars, hvars>>

\* case GST_MESSAGE_ERROR: pthread_mutex_lock(&g_state.error_mutex)
CallbackLock ==
    /\ lpc = "cb_lock"
    /\ error_mutex = "free"
    /\ error_mutex' = "loop"
    /\ lpc' = "cb_write"
    /\ UNCHANGED <<pipeline, elems, main_loop, is_initialized, is_playing,
                   mutex_initialized, last_error, evars, cur_msg, cvars, hvars>>

\* CallbackWrite without the assignment: the Error is logged and not recorded.
CallbackWrite_NotRecorded ==
    /\ lpc = "cb_write"
    /\ error_mutex' = "free"
    /\ lpc' = "cb_quit"
    /\ UNCHANGED <<pipeline, elems, main_loop, is_initialized, is_playing,
                   mutex_initialized, last_error, evars, cur_msg, cvars, hvars>>

\* last_error = "GStreamer Error: " + err->message; pthread_mutex_unlock
CallbackWrite ==
    /\ lpc = "cb_write"
    /\ last_error' = GstError(cur_msg.text)
    /\ error_mutex' = "free"
    /\ lpc' = "cb_quit"
    /\ UNCHANGED <<pipeline, elems, main_loop, is_initialized, is_playing,
                   mutex_initialized, evars, cur_msg, cvars, hvars>>

\* CallbackQuit with the quit left out for an Error: the loop keeps running.
CallbackQuit_NotOnError ==
    /\ lpc = "cb_quit"
    /\ loop_running' = IF main_loop # "NULL" /\ cur_msg.type # "ERROR"
                       THEN FALSE ELSE loop_running
    /\ cur_msg' = NoMsg
    /\ lpc' = "run"
    /\ UNCHANGED <<gvars, in_bin, linked, bus_watch, gst_state, bus, appsrc_eos,
                   eos_posted, queued, cvars, hvars>>

\* if (g_state.main_loop) g_main_loop_quit(g_state.main_loop), for ERROR and EOS
CallbackQuit ==
    /\ lpc = "cb_quit"
    /\ loop_running' = IF main_loop # "NULL" THEN FALSE ELSE loop_running
    /\ cur_msg' = NoMsg
    /\ lpc' = "run"
    /\ UNCHANGED <<gvars, in_bin, linked, bus_watch, gst_state, bus, appsrc_eos,
                   eos_posted, queued, cvars, hvars>>

\* g_main_loop_run returns once is_running is cleared; the thread ends.
LoopExit ==
    /\ lpc = "run"
    /\ ~loop_running
    /\ lpc' = "exited"
    /\ UNCHANGED <<gvars, evars, cur_msg, cvars, hvars>>

----------------------------------------------------------------------------
\* The engine: a pipeline in the PLAYING state consumes queued chunks and
\* posts messages.  EOS is posted at most once, after end-of-stream was
\* signalled to appsrc and the queue has drained, and may never be posted.

EnginePost ==
    /\ gst_state = "PLAYING"
    /\ Len(bus) < MaxBus
    /\ \E m \in Messages :
          /\ m.type = "EOS" => appsrc_eos /\ ~eos_posted /\ queued = 0
          /\ eos_posted' = (eos_posted \/ m.type = "EOS")
          /\ bus' = Append(bus, m)
    /\ UNCHANGED <<gvars, in_bin, linked, bus_watch, gst_state, loop_running,
                   appsrc_eos, queued, lvars, cvars, hvars>>

EngineConsume ==
    /\ gst_state = "PLAYING"
    /\ queued > 0
    /\ queued' = queued - 1
    /\ UNCHANGED <<gvars, in_bin, linked, bus_watch, gst_state, bus, loop_running,
                   appsrc_eos, eos_posted, lvars, cvars, hvars>>

----------------------------------------------------------------------------
\* The program

Enter(c) ==
    \/ nativeInitPipeline(c)
    \/ nativeStartPipeline(c)
    \/ nativeFeedAudioData(c)
    \/ nativeStopPipeline(c)
    \/ nativeGetLastError(c)

\* Every step of a caller but the creation of the objects.
CallerStepElse(c) ==
    \/ Return(c)
    \/ ErrLock(c) \/ ErrWrite(c) \/ ErrLog(c)
    \/ InitMutex(c) \/ InitCheck(c) \/ InitCreated(c)
    \/ InitCreateFailed(c) \/ InitRetCreate(c) \/ InitConfig(c) \/ InitLink(c)
    \/ InitLinkFailed(c) \/ InitRetLink(c) \/ InitWatch(c) \/ InitStore(c)
    \/ CleanupCheck(c) \/ CleanupUnref(c) \/ CleanupNull(c) \/ CleanupElems(c)
    \/ CleanupFlags(c)
    \/ StopCheck(c) \/ StopMark(c) \/ StopEos(c) \/ StopWaitPop(c)
    \/ StopWaitTimeout(c) \/ StopNull(c) \/ StopQuit(c) \/ StopJoin(c)
    \/ StopUnref(c) \/ StopDone(c)
    \/ StartCheck(c) \/ StartRetNotInit(c) \/ StartPlayingCheck(c)
    \/ StartLoopNew(c) \/ StartSpawn(c) \/ StartSpawnFailed(c) \/ StartSetState(c)
    \/ StartRollbackQuit(c) \/ StartRollbackJoin(c) \/ StartRollbackUnref(c)
    \/ StartRetFailed(c) \/ StartMark(c)
    \/ FeedCheck(c) \/ FeedPrepare(c) \/ FeedPushOk(c) \/ FeedPushRejected(c)
    \/ FeedRetPush(c)
    \/ GetLock(c) \/ GetRead(c)

CallerStep(c) == InitCreate(c) \/ CallerStepElse(c)

LoopStep == LoopEnter \/ LoopDispatch \/ CallbackLock \/ CallbackWrite \/ CallbackQuit \/ LoopExit

EngineStep == EnginePost \/ EngineConsume

\* No call is in progress on any caller thread.
Quiet == \A c \in Callers : pc[c] = "idle"

\* The operations are called one at a time, from any thread; the main-loop
\* thread and the engine run alongside the call in progress.
Next ==
    \/ \E c \in Callers : Quiet /\ Enter(c)
    \/ \E c \in Callers : CallerStep(c)
    \/ LoopStep
    \/ EngineStep

Spec == Init /\ [][Next]_vars

\* The same program under a fair scheduler: a call in progress and the
\* main-loop thread keep taking steps while they can.  Nothing is assumed of
\* the engine or of when the next call is made.
LiveSpec ==
    /\ Spec
    /\ \A c \in Callers : WF_vars(CallerStep(c))
    /\ WF_vars(LoopStep)

\* The same, with a dispatch thread that is not starved of the error mutex: a
\* pthread_mutex_lock that could succeed again and again does succeed.
FairSpec ==
    /\ Spec
    /\ \A c \in Callers : WF_vars(CallerStep(c))
    /\ SF_vars(LoopStep)


----------------------------------------------------------------------------
\* Calls that overlap.  Nothing in the code keeps two JNI calls apart: g_state
\* is read and written without a lock, except last_error.

\* pthread_join(g_state.loop_thread) on a handle that names no joinable thread
\* (it was joined by another caller already): undefined.  The call either
\* fails at once, which is this step, or never returns, which is no step.
StopJoinStale(c) ==
    /\ pc[c] = "stop_join"
    /\ lpc = "none"
    /\ Log(c, "join")
    /\ Goto(c, "stop_unref")
    /\ UNCHANGED <<gvars, evars, lvars, stack, op, pend, msg, ret, wasPlaying,
                   stopped, fresh, orphaned, calls>>

StartRollbackJoinStale(c) ==
    /\ pc[c] = "start_rb_join"
    /\ lpc = "none"
    /\ Step(c, "start_rb_unref")
    /\ UNCHANGED <<gvars, evars, lvars>>

\* The creation outcomes followed where calls overlap: everything is created,
\* the source or the pipeline is missing, or nothing is created.
CreateOutcomes == {Handles, Handles \ {"appsrc"}, Handles \ {"pipeline"}, {}}

InitCreateSome(c) == InitCreateAs(c, CreateOutcomes)

OverlapStep(c) ==
    \/ InitCreateSome(c)
    \/ CallerStepElse(c)
    \/ StopJoinStale(c)
    \/ StartRollbackJoinStale(c)

\* A call is entered whatever the other caller is doing.
OverlapEnter(c) ==
    /\ calls < MaxCalls
    /\ \E e \in {<<"init", "init_mutex">>, <<"start", "start_check">>,
                  <<"feed", "feed_check">>, <<"stop", "stop_check">>,
                  <<"getLastError", "get_lock">>} :
          /\ pc[c] = "idle"
          /\ pc' = [pc EXCEPT ![c] = e[2]]
          /\ op' = [op EXCEPT ![c] = e[1]]
          /\ wasPlaying' = [wasPlaying EXCEPT ![c] = is_playing]
          /\ stopped' = (stopped /\ e[1] \notin {"init", "start"})
          /\ fresh' = (fresh /\ e[1] \notin {"init", "start"})
          /\ calls' = calls + 1
    /\ UNCHANGED <<gvars, evars, lvars, stack, pend, msg, ret, stopLog, orphaned>>

\* Two callers whose calls overlap freely, at most MaxCalls calls in a run,
\* with an engine that posts no message of its own accord (a refused state
\* change still posts its Error).  Every behaviour of this specification is
\* one of the program; the program has more.
OverlapNext ==
    \/ \E c \in Callers : OverlapEnter(c)
    \/ \E c \in Callers : OverlapStep(c)
    \/ LoopStep
    \/ EngineConsume

OverlapSpec == Init /\ [][OverlapNext]_vars

----------------------------------------------------------------------------
\* Shared vocabulary of the properties

\* The steps of stop_pipeline, in the order of the shutdown protocol.
StopSteps == <<"mark", "eos", "wait", "null", "quit", "join">>

\* How many of them are behind a caller at each position of stop_pipeline.
StopPos(c) ==
    CASE pc[c] \in {"stop_check", "stop_mark"} -> 0
      [] pc[c] = "stop_eos" -> 1
      [] pc[c] = "stop_wait" -> 2
      [] pc[c] = "stop_null" -> 3
      [] pc[c] = "stop_quit" -> 4
      [] pc[c] = "stop_join" -> 5
      [] OTHER -> 6

InStop(c) ==
    pc[c] \in {"stop_check", "stop_mark", "stop_eos", "stop_wait", "stop_null",
               "stop_quit", "stop_join", "stop_unref", "stop_done"}

\* The main loop has been told to quit and obeys, or its thread is gone.
LoopTerminated == lpc = "exited" \/ (lpc = "run" /\ ~loop_running)

Returned(c, at) == pc[c] = "return" /\ ret[c].at = at

----------------------------------------------------------------------------
\* C1: a stop() called on a Playing session does the steps of the shutdown
\* protocol in order and skips none: is_playing is cleared, end-of-stream is
\* signalled, the wait ends with an EOS, an ERROR or the timeout, the pipeline
\* is set to NULL whatever the wait returned, the loop is told to quit and
\* its thread is joined; stop returns with all six steps done.
C1_StopProtocolInOrder ==
    \A c \in Callers :
        (op[c] = "stop" /\ wasPlaying[c] /\ (InStop(c) \/ pc[c] = "return")) =>
            /\ stopLog[c] = SubSeq(StopSteps, 1, StopPos(c))
            /\ StopPos(c) >= 1 => ~is_playing
            /\ StopPos(c) >= 2 => appsrc_eos \/ gst_state = "NULL"
            /\ StopPos(c) >= 3 => msg[c].type \in {"EOS", "ERROR", "TIMEOUT"}
            /\ StopPos(c) >= 4 => gst_state = "NULL"
            /\ StopPos(c) >= 6 => lpc = "none"
            /\ pc[c] = "return" => ret[c].at = "stop:done"

\* A stop() of a Playing session returns after a wait that timed out.
C1_Witness ==
    \E c \in Callers :
        /\ op[c] = "stop" /\ wasPlaying[c] /\ Returned(c, "stop:done")
        /\ msg[c].type = "TIMEOUT"
        /\ stopLog[c] = StopSteps

\* C2 (as claimed): after a successful start(), every stop() returns.
C2_StopAlwaysReturns ==
    \A c \in Callers :
        (op[c] = "stop" /\ wasPlaying[c] /\ pc[c] = "stop_check") ~> (pc[c] = "idle")

\* C3 (as claimed): an EOS posted after stop() signalled end-of-stream, once
\* it is off the bus, has ended stop's wait before the timeout and has
\* terminated the dispatch loop, whichever consumer took it (stated for a
\* dispatch thread that has entered its loop).
C3_EosServesBothConsumers ==
    \A c \in Callers :
        (pc[c] = "stop_null" /\ eos_posted /\ lpc # "spawned"
         /\ \A i \in 1..Len(bus) : bus[i] # EosMsg) =>
            /\ msg[c].type # "TIMEOUT"
            /\ LoopTerminated

C5_SecondStopIsNoop ==
    \A c \in Callers :
        (op[c] = "stop" /\ stopped /\ (InStop(c) \/ pc[c] = "return")) =>
            stopLog[c] = <<>>

\* C6 (as claimed): when stop() returns from a Playing session, the manager
\* holds no pipeline or stage handle and the session is not initialized.
C6_StopReleasesGraph ==
    \A c \in Callers :
        (op[c] = "stop" /\ wasPlaying[c] /\ Returned(c, "stop:done")) =>
            /\ pipeline = "NULL"
            /\ \A s \in Stages : elems[s] = "NULL"
            /\ ~is_initialized

\* C7: feed() on a session that is not playing returns true from its first
\* check and changes nothing: no chunk is queued, no flag and no ErrorRecord
\* is written, nothing of the engine or the dispatch thread is touched.
C7_FeedNotPlayingIsNoop ==
    [][\A c \in Callers :
          (op[c] = "feed" /\ pc[c] = "feed_check" /\ ~is_playing /\ pc'[c] # pc[c]) =>
              /\ pc'[c] = "return"
              /\ ret'[c] = [at |-> "feed:not_playing", val |-> "true"]
              /\ UNCHANGED <<gvars, evars, lvars>>
      ]_vars

\* feed() returns from its first check on a session that was stopped.
C7_Witness ==
    \E c \in Callers :
        /\ op[c] = "feed" /\ Returned(c, "feed:not_playing")
        /\ stopped /\ is_initialized /\ ~is_playing

\* C8: when initialize() returns after a stage could not be created or the
\* stages could not be linked, it returns false, ErrorRecord holds the
\* construction error, every handle is NULL, the session is neither
\* initialized nor playing, and there is no main loop and no dispatch thread.
C8_InitFailureLeavesUninitialized ==
    \A c \in Callers :
        (op[c] = "init" /\ pc[c] = "return"
         /\ ret[c].at \in {"init:create_failed", "init:link_failed"}) =>
            /\ ret[c].val = "false"
            /\ last_error = IF ret[c].at = "init:create_failed" THEN ErrCreate ELSE ErrLink
            /\ pipeline = "NULL"
            /\ \A s \in Stages : elems[s] = "NULL"
            /\ ~in_bin /\ ~linked /\ ~bus_watch
            /\ ~is_initialized /\ ~is_playing
            /\ main_loop = "NULL" /\ lpc = "none"

\* initialize() fails at linking after it was called on a Playing session.
C8_Witness ==
    \E c \in Callers :
        /\ op[c] = "init" /\ Returned(c, "init:link_failed") /\ wasPlaying[c]

\* C9 (as claimed): once the engine has refused the PLAYING state, start()
\* gets to return false, with the dispatch thread joined, the main-loop
\* handle released and the session initialized and not playing.
C9_FailedStartReturns ==
    \A c \in Callers :
        (pc[c] = "start_rb_quit") ~>
            (/\ Returned(c, "start:playing_failed")
             /\ lpc = "none" /\ main_loop = "NULL"
             /\ is_initialized /\ ~is_playing)

\* C10: start() on a session that is already playing returns true and
\* changes nothing: no main loop is made, no thread is spawned, the pipeline
\* state, the flags and ErrorRecord stay as they are.
C10_StartWhilePlayingIsNoop ==
    [][\A c \in Callers :
          (op[c] = "start" /\ wasPlaying[c] /\ pc[c] # "return" /\ pc'[c] # pc[c]) =>
              /\ UNCHANGED <<gvars, evars, lvars>>
              /\ pc'[c] \in {"start_playing_check", "return"}
              /\ pc'[c] = "return" =>
                    ret'[c] = [at |-> "start:already_playing", val |-> "true"]
      ]_vars

\* start() returns from its is_playing check while the dispatch thread runs.
C10_Witness ==
    \E c \in Callers :
        /\ op[c] = "start" /\ Returned(c, "start:already_playing")
        /\ is_playing /\ lpc = "run" /\ main_loop = "valid"

----------------------------------------------------------------------------
\* C11: a stop() that follows an initialize() that returned true, with no
\* start() in between, returns: its wait ends at the timeout or with a
\* message, it finds no main loop to quit and no thread to join, and when it
\* returns there is no dispatch thread and no main loop and the session is not
\* playing.
C11_InitThenStopReturns ==
    \A c \in Callers :
        (op[c] = "stop" /\ fresh /\ pc[c] = "stop_check") ~>
            (/\ Returned(c, "stop:done")
             /\ lpc = "none" /\ main_loop = "NULL" /\ ~loop_running
             /\ ~is_playing)

\* Such a stop() returns after its wait timed out, having skipped the quit
\* and the join.
C11_Witness ==
    \E c \in Callers :
        /\ op[c] = "stop" /\ fresh /\ Returned(c, "stop:done")
        /\ msg[c].type = "TIMEOUT"
        /\ stopLog[c] = <<"mark", "eos", "wait", "null">>
        /\ lpc = "none" /\ main_loop = "NULL"

----------------------------------------------------------------------------
\* C12: no step of a feed() made on a Playing session changes the session:
\* the handles, is_initialized, is_playing, the main loop, the dispatch thread
\* and the pipeline state stay as they are, whether the call succeeds or
\* fails.  A feed() that could not get its buffers or whose push was rejected
\* returns false with the session still playing, and the next feed() on a
\* playing session goes past the is_playing check to a new attempt.
C12_FailedFeedKeepsSession ==
    [][\A c \in Callers :
          (op[c] = "feed" /\ wasPlaying[c] /\ pc'[c] # pc[c]) =>
              /\ is_playing
              /\ UNCHANGED <<pipeline, elems, main_loop, is_initialized, is_playing,
                             mutex_initialized, in_bin, linked, bus_watch, gst_state,
                             loop_running, appsrc_eos, lvars>>
              /\ pc[c] = "feed_check" => pc'[c] = "feed_prepare"
              /\ (pc'[c] = "return"
                  /\ ret'[c].at \in {"feed:no_data", "feed:no_buffer", "feed:no_map",
                                     "feed:push_failed"})
                    => ret'[c].val = "false"
      ]_vars

\* feed() returns false after a rejected push while the dispatch loop runs.
C12_Witness ==
    \E c \in Callers :
        /\ op[c] = "feed" /\ Returned(c, "feed:push_failed") /\ ret[c].val = "false"
        /\ is_playing /\ is_initialized
        /\ lpc = "run" /\ loop_running /\ gst_state = "PLAYING"

----------------------------------------------------------------------------
\* An Error message is on the bus or in the hands of the callback.
ErrorPending ==
    \/ \E i \in 1..Len(bus) : bus[i].type = "ERROR"
    \/ lpc \in {"cb_lock", "cb_write"}

----------------------------------------------------------------------------
\* C14 (as claimed): no thread reads last_error while another thread is
\* writing it: a caller that is reading the string for its log line is never
\* alongside the callback, or another caller, inside the locked assignment.
C14_NoReadDuringWrite ==
    \A c \in Callers :
        pc[c] = "err_log" =>
            /\ lpc # "cb_write"
            /\ \A d \in Callers \ {c} : pc[d] # "err_write"

----------------------------------------------------------------------------
\* C15 (as claimed): when lifecycle calls overlap, a dispatch thread is
\* spawned only when none exists, so no thread's handle is overwritten before
\* it is joined, and a caller that is about to join finds a thread that has
\* not been joined yet.
C15_OneSpawnOneJoin ==
    /\ ~orphaned
    /\ \A c \in Callers : pc[c] \in {"stop_join", "start_rb_join"} => lpc # "none"

----------------------------------------------------------------------------
\* C16 (as claimed): while the session is marked as not playing by a stop()
\* on another thread that has gone on to signal end-of-stream, no feed() is on
\* its way to gst_app_src_push_buffer: every feed() that overlaps the stop has
\* returned from its is_playing check.
C16_NoPushAfterEos ==
    \A c \in Callers : \A d \in Callers \ {c} :
        (pc[c] = "feed_push" /\ op[d] = "stop" /\ wasPlaying[d] /\ InStop(d)
         /\ ~is_playing) => StopPos(d) < 2

----------------------------------------------------------------------------
\* The graph as init_pipeline leaves it on success, and as cleanup_pipeline
\* leaves it.
GraphWhole == AllValid /\ in_bin /\ linked /\ bus_watch

GraphAbsent ==
    /\ pipeline = "NULL"
    /\ \A s \in Stages : elems[s] = "NULL"
    /\ ~in_bin /\ ~linked /\ ~bus_watch

\* cleanup_pipeline is past its stop and is releasing the graph.
TearingDown(c) ==
    pc[c] \in {"cleanup_unref", "cleanup_null", "cleanup_elems", "cleanup_flags"}

----------------------------------------------------------------------------
\* C18 (as claimed): a call that has passed its is_playing or is_initialized
\* check uses only handles that are still valid: feed() pushes to a live
\* appsrc, start() sets the state of a live pipeline, and stop() signals,
\* waits on and stops no released object.
C18_NoUseAfterRelease ==
    \A c \in Callers :
        /\ pc[c] = "feed_push" => elems["appsrc"] = "valid"
        /\ pc[c] = "start_set_state" => pipeline = "valid"
        /\ pc[c] = "stop_eos" => elems["appsrc"] # "freed"
        /\ pc[c] \in {"stop_wait", "stop_null"} => pipeline # "freed"

----------------------------------------------------------------------------
\* C19: with calls made one at a time, between calls a playing session is
\* initialized, and a dispatch thread that was spawned and not joined exists
\* exactly when main_loop is set, which is exactly when is_playing is set;
\* pthread_create is reached only when no such thread exists, so no handle is
\* overwritten, and pthread_join is reached only when one exists, so no thread
\* is joined twice and none is joined that was never spawned.
C19_ThreadLoopPlayingAgree ==
    /\ Quiet =>
          /\ is_playing => is_initialized
          /\ (lpc # "none") <=> (main_loop # "NULL")
          /\ (main_loop # "NULL") <=> is_playing
    /\ ~orphaned
    /\ \A c \in Callers :
          /\ pc[c] = "start_spawn" => lpc = "none"
          /\ pc[c] \in {"stop_join", "start_rb_join"} =>
                (lpc # "none" /\ main_loop # "NULL")
          /\ pc[c] \in {"stop_unref", "start_rb_unref"} => lpc = "none"

\* Between calls, after the callback has ended the loop on an Error: the
\* thread has exited and is not joined yet, main_loop and is_playing are
\* still set.
C19_Witness ==
    /\ Quiet
    /\ is_playing /\ is_initialized /\ main_loop = "valid"
    /\ lpc = "exited" /\ ~loop_running
    /\ \E e \in ErrTexts : last_error = GstError(e)
    /\ ~stopped

----------------------------------------------------------------------------
\* C20: with calls made one at a time, an initialize() called on a playing
\* session runs stop_pipeline on it before anything else: the steps of the
\* shutdown protocol in order, all six of them done by the time the old graph
\* is released; the new graph is created only after the old one is gone and
\* the session is marked uninitialized; and when the call returns true the
\* session is initialized with a whole graph in the NULL state, is not
\* playing (so feed() returns at its first check), and has no main loop and
\* no dispatch thread.
C20_ReinitStopsThenRebuilds ==
    \A c \in Callers :
        (op[c] = "init" /\ wasPlaying[c]) =>
            /\ InStop(c) => stopLog[c] = SubSeq(StopSteps, 1, StopPos(c))
            /\ pc[c] \in {"init_mutex", "init_check", "cleanup_check"} =>
                  (stopLog[c] = <<>> \/ stopLog[c] = StopSteps)
            /\ (~InStop(c) /\ pc[c] \notin {"init_mutex", "init_check", "cleanup_check"}) =>
                  /\ stopLog[c] = StopSteps
                  /\ ~is_playing /\ lpc = "none" /\ main_loop = "NULL" /\ ~loop_running
                  /\ gst_state = "NULL"
            /\ pc[c] = "init_create" => (GraphAbsent /\ ~is_initialized)
            /\ Returned(c, "init:ok") =>
                  /\ ret[c].val = "true"
                  /\ is_initialized /\ GraphWhole
                  /\ bus = <<>> /\ queued = 0 /\ ~appsrc_eos

\* Such an initialize() returns true.
C20_Witness ==
    \E c \in Callers :
        /\ op[c] = "init" /\ wasPlaying[c] /\ Returned(c, "init:ok")
        /\ stopLog[c] = StopSteps /\ msg[c].type = "EOS"

----------------------------------------------------------------------------
\* C21: no operation resets last_error to the empty string.  last_error is
\* empty when the process starts; every step that records an error, by a
\* caller or by the bus callback, leaves it non-empty; no step of any
\* operation, a successful initialize(), start() or stop() included, makes a
\* non-empty last_error empty; and getLastError() returns the value last_error
\* has when it is read.  So getLastError() returns the empty string exactly
\* when no error has been recorded so far.
C21_ErrorRecordNeverReset ==
    [][/\ last_error # "" => last_error' # ""
       /\ last_error' # last_error =>
             \/ \E c \in Callers : pc[c] = "err_write" /\ pc'[c] = "err_log"
             \/ lpc = "cb_write" /\ lpc' = "cb_quit"
       /\ \A c \in Callers :
             (pc[c] = "err_write" /\ pc'[c] # pc[c]) =>
                 last_error' \in {ErrCreate, ErrLink, ErrNotInit, ErrThread,
                                  ErrPlaying, ErrPush}
       /\ (lpc = "cb_write" /\ lpc' # lpc /\ cur_msg.type = "ERROR") =>
             \E e \in ErrTexts : last_error' = GstError(e)
       /\ \A c \in Callers :
             (pc[c] = "get_read" /\ pc'[c] # pc[c]) =>
                 (Returned(c, "getLastError")' /\ ret'[c].val = last_error)
      ]_vars

\* getLastError() returns a message when the last of initialize(), start()
\* and stop() to return was an initialize() that returned true.
C21_Witness ==
    \E c \in Callers :
        /\ op[c] = "getLastError" /\ Returned(c, "getLastError")
        /\ ret[c].val # "" /\ ret[c].val = last_error
        /\ fresh /\ is_initialized /\ ~is_playing

====
